---- MODULE Spec2Model ----
(***************************************************************************)
(* Model of etl/script/uis.py: the SDMX 2.0 -> DDF CSV pipeline.           *)
(*                                                                         *)
(* Text that the program orders or rewrites (codes, ids, times, column     *)
(* names) is a sequence of one-character strings, so that canonicalization *)
(* and string comparison are computed.  Text that is only copied or only   *)
(* compared for equality (descriptions, observation values) is a string.   *)
(* Python's None for an element without text is the empty sequence:        *)
(* xmltodict never yields an empty string for element text.                *)
(* Dictionaries keep insertion order (Python >= 3.7) and are sequences of  *)
(* entries.  pandas raises KeyError from .loc for a list of labels of      *)
(* which one is missing (pandas >= 1.0).                                   *)
(***************************************************************************)
EXTENDS Integers, Sequences, FiniteSets, TLC

VARIABLES pc, dsdXml, dataXml, dsd, data, conc, disc, location, cur, written, indexed, err

vars == <<pc, dsdXml, dataXml, dsd, data, conc, disc, location, cur, written, indexed, err>>

(***************************************************************************)
(* Bounds of the model.                                                    *)
(***************************************************************************)
MaxSeries == 3
MaxCodes == 2

(***************************************************************************)
(* Characters and string comparison.                                       *)
(***************************************************************************)
\* The characters of the model's texts, in code point order.
Ascii == <<"-", ".", "0", "1", "2", "9", "A", "D", "E", "F", "R", "S", "U", "_", "a", "d", "e", "f", "r", "s", "u">>

Ord(c) == CHOOSE i \in 1..Len(Ascii) : Ascii[i] = c

Uppers == <<"A", "D", "E", "F", "R", "S", "U">>
Lowers == <<"a", "d", "e", "f", "r", "s", "u">>
Digits == {"0", "1", "2", "9"}

IsUpper(c) == \E i \in 1..Len(Uppers) : Uppers[i] = c
IsAlnum(c) == c \in Digits \/ IsUpper(c) \/ (\E i \in 1..Len(Lowers) : Lowers[i] = c)
LowerOf(c) == IF IsUpper(c) THEN Lowers[CHOOSE i \in 1..Len(Uppers) : Uppers[i] = c] ELSE c

\* Python's str < str: by code point, a proper prefix first.
RECURSIVE StrLess(_, _)
StrLess(a, b) ==
    IF Len(b) = 0 THEN FALSE
    ELSE IF Len(a) = 0 THEN TRUE
    ELSE IF Ord(Head(a)) # Ord(Head(b)) THEN Ord(Head(a)) < Ord(Head(b))
    ELSE StrLess(Tail(a), Tail(b))

StrLeq(a, b) == a = b \/ StrLess(a, b)

(***************************************************************************)
(* ddf_utils.str.to_concept_id: lowercase, every run of characters that    *)
(* are not alphanumeric collapsed to one separator.                        *)
(***************************************************************************)
RECURSIVE ConceptIdFrom(_, _)
ConceptIdFrom(s, out) ==
    IF Len(s) = 0 THEN out
    ELSE IF IsAlnum(Head(s)) THEN ConceptIdFrom(Tail(s), Append(out, LowerOf(Head(s))))
    ELSE IF Len(out) > 0 /\ out[Len(out)] = "_" THEN ConceptIdFrom(Tail(s), out)
    ELSE ConceptIdFrom(Tail(s), Append(out, "_"))

to_concept_id(s) == ConceptIdFrom(s, <<>>)

(***************************************************************************)
(* xmltodict: the shape of the value under a child element's name.  No     *)
(* child: the key is missing.  One child: the child itself.  Several: a    *)
(* list of them.                                                           *)
(***************************************************************************)
Shape(children) ==
    IF Len(children) = 0 THEN "missing"
    ELSE IF Len(children) = 1 THEN "one"
    ELSE "list"

\* An element with text: a dict with '#text' when it has attributes, else the bare text.
IsDict(elem) == elem.attrs

Ok(v) == [err |-> "none", val |-> v]
Raise(e) == [err |-> e, val |-> <<>>]

(***************************************************************************)
(* Ordered dictionaries: sequences of entries [k, v] in insertion order.   *)
(***************************************************************************)
Keys(d) == [i \in 1..Len(d) |-> d[i].k]
HasKey(d, key) == \E i \in 1..Len(d) : d[i].k = key
Get(d, key) == d[CHOOSE i \in 1..Len(d) : d[i].k = key].v
Put(d, key, val) ==
    IF HasKey(d, key) THEN [i \in 1..Len(d) |-> IF d[i].k = key THEN [k |-> key, v |-> val] ELSE d[i]]
    ELSE Append(d, [k |-> key, v |-> val])

RECURSIVE Flatten(_)
Flatten(ss) == IF Len(ss) = 0 THEN <<>> ELSE Head(ss) \o Flatten(Tail(ss))

(***************************************************************************)
(* Stable sort of rows by a key order (pandas sort_index / sort_values).   *)
(***************************************************************************)
\* tuples of strings compared like Python tuples
RECURSIVE KeyLeq(_, _)
KeyLeq(a, b) ==
    IF Len(a) = 0 THEN TRUE
    ELSE IF Head(a) = Head(b) THEN KeyLeq(Tail(a), Tail(b))
    ELSE StrLess(Head(a), Head(b))

RECURSIVE InsertSorted(_, _)
InsertSorted(sorted, e) ==
    IF Len(sorted) = 0 THEN <<e>>
    ELSE IF KeyLeq(sorted[Len(sorted)].key, e.key) THEN Append(sorted, e)
    ELSE Append(InsertSorted(SubSeq(sorted, 1, Len(sorted) - 1), e), sorted[Len(sorted)])

RECURSIVE SortFrom(_, _)
SortFrom(es, sorted) ==
    IF Len(es) = 0 THEN sorted
    ELSE SortFrom(Tail(es), InsertSorted(sorted, Head(es)))

\* rows in ascending order of keys[j], the key of rows[j]; equal keys keep their order
StableSort(rows, keys) ==
    LET sorted == SortFrom([j \in 1..Len(rows) |-> [key |-> keys[j], row |-> rows[j]]], <<>>)
    IN  [j \in 1..Len(rows) |-> sorted[j].row]

(***************************************************************************)
(* Column names.                                                           *)
(***************************************************************************)
COL_TIME == <<"t", "i", "m", "e">>
COL_LOCATION == <<"l", "o", "c", "a", "t", "i", "o", "n">>
COL_CONCEPT == <<"c", "o", "n", "c", "e", "p", "t">>
COL_NAME == <<"n", "a", "m", "e">>
COL_CONCEPT_TYPE == <<"c", "o", "n", "c", "e", "p", "t", "_", "t", "y", "p", "e">>

(***************************************************************************)
(* _read_data                                                              *)
(***************************************************************************)
NoAttrs == [hasKey |-> FALSE, key |-> <<>>, hasLocation |-> FALSE, location |-> <<>>]

\* lines 64-68: the loop over the SeriesKey's Value elements
RECURSIVE SeriesAttrs(_, _)
SeriesAttrs(values, attrs) ==
    IF Len(values) = 0 THEN attrs
    ELSE LET i == Head(values)
             a1 == IF i.concept = "EDULIT_IND"
                   THEN [attrs EXCEPT !.hasKey = TRUE, !.key = to_concept_id(i.value)]
                   ELSE attrs
             a2 == IF i.concept = "LOCATION"
                   THEN [a1 EXCEPT !.hasLocation = TRUE, !.location = to_concept_id(i.value)]
                   ELSE a1
         IN  SeriesAttrs(Tail(values), a2)

\* [o['Time'], o['ObsValue']['@value']] of one Obs
ObsPair(o) == <<o.time, o.value>>

\* lines 71-76: the series' observations as a list of [time, value]
SeriesObs(obs) ==
    IF Shape(obs) = "missing" THEN Raise("KeyError")
    ELSE IF \E j \in 1..Len(obs) : ~obs[j].hasValue THEN Raise("TypeError")
    ELSE IF Shape(obs) = "list" THEN Ok([j \in 1..Len(obs) |-> ObsPair(obs[j])])
    ELSE Ok(<<ObsPair(obs[1])>>)

\* no assertion: a second series of a pair replaces the first
InsertSeries_Overwrite(all_data, attrs, ser) ==
    IF ~attrs.hasKey THEN Raise("KeyError")
    ELSE IF ~attrs.hasLocation THEN Raise("KeyError")
    ELSE IF ~HasKey(all_data, attrs.key)
    THEN Ok(Put(all_data, attrs.key, <<[k |-> attrs.location, v |-> ser]>>))
    ELSE Ok(Put(all_data, attrs.key, Put(Get(all_data, attrs.key), attrs.location, ser)))

\* lines 78-83: the series put under its indicator and location
InsertSeries(all_data, attrs, ser) ==
    IF ~attrs.hasKey THEN Raise("KeyError")
    ELSE IF ~HasKey(all_data, attrs.key)
    THEN IF ~attrs.hasLocation THEN Raise("KeyError")
         ELSE Ok(Put(all_data, attrs.key, <<[k |-> attrs.location, v |-> ser]>>))
    ELSE IF ~attrs.hasLocation THEN Raise("KeyError")
    ELSE IF HasKey(Get(all_data, attrs.key), attrs.location) THEN Raise("AssertionError")
    ELSE Ok(Put(all_data, attrs.key, Put(Get(all_data, attrs.key), attrs.location, ser)))

\* lines 58-83: one iteration of the loop over the Series elements
ReadSeries(all_data, item) ==
    IF Shape(item.key) # "list" THEN Raise("TypeError")
    ELSE LET attrs == SeriesAttrs(item.key, NoAttrs)
             ser == SeriesObs(item.obs)
         IN  IF ser.err # "none" THEN ser ELSE InsertSeries(all_data, attrs, ser.val)

\* lines 53-83: the loop
RECURSIVE GroupSeries(_, _)
GroupSeries(all_ser, all_data) ==
    IF Len(all_ser) = 0 THEN Ok(all_data)
    ELSE LET r == ReadSeries(all_data, Head(all_ser))
         IN  IF r.err # "none" THEN r ELSE GroupSeries(Tail(all_ser), r.val)

\* lines 89-90: the frame of one location's series
SeriesFrame(loc, ser) == [j \in 1..Len(ser) |-> [time |-> ser[j][1], value |-> ser[j][2], location |-> loc]]

\* the frames concatenated in the order of the location ids, not of the document
ConcatSeries_Sorted(k, v) ==
    [columns |-> <<COL_TIME, k, COL_LOCATION>>,
     rows |-> Flatten([i \in 1..Len(v) |->
                 SeriesFrame(StableSort(v, [j \in 1..Len(v) |-> <<v[j].k>>])[i].k,
                             StableSort(v, [j \in 1..Len(v) |-> <<v[j].k>>])[i].v)])]

\* lines 87-93: the indicator's frames concatenated
ConcatSeries(k, v) ==
    [columns |-> <<COL_TIME, k, COL_LOCATION>>,
     rows |-> Flatten([i \in 1..Len(v) |-> SeriesFrame(v[i].k, v[i].v)])]

_read_data(file) ==
    IF ~file.wellFormed THEN Raise("XMLSyntaxError")
    ELSE LET g == GroupSeries(file.series, <<>>)
         IN  IF g.err # "none" THEN g
             ELSE Ok([i \in 1..Len(g.val) |-> [k |-> g.val[i].k, v |-> ConcatSeries(g.val[i].k, g.val[i].v)]])

(***************************************************************************)
(* _read_dsd: xmltodict.parse of the structure file                        *)
(***************************************************************************)
\* the value xmltodict stores under the name of repeated child elements
Children(elems) == [shape |-> Shape(elems), items |-> elems]

ParseCode(c) == [value |-> c.value, hasParent |-> c.hasParent, parentCode |-> c.parentCode, Description |-> Children(c.descs)]

ParseCodeList(codes) == [Code |-> Children([i \in 1..Len(codes) |-> ParseCode(codes[i])])]

_read_dsd(file) ==
    IF ~file.wellFormed THEN Raise("ExpatError")
    ELSE Ok([CodeList |-> <<ParseCodeList(file.indicators), ParseCodeList(file.locations)>>])

(***************************************************************************)
(* extract_concepts_continuous                                             *)
(***************************************************************************)
\* lines 114-117: the description of an indicator code
IndicatorDescription(d) ==
    IF d.shape = "missing" THEN Raise("KeyError")
    ELSE IF d.shape = "one"
    THEN IF IsDict(d.items[1]) THEN Ok(d.items[1].text) ELSE Raise("TypeError")
    ELSE IF IsDict(d.items[1]) THEN Ok(d.items[1].text) ELSE Raise("TypeError")

\* lines 104-119: the record of one indicator code
IndicatorInfo(i) ==
    LET name == IndicatorDescription(i.Description)
    IN  IF name.err # "none" THEN name
        ELSE Ok([concept |-> i.value,
                 drillup |-> IF i.hasParent THEN i.parentCode ELSE <<>>,
                 name |-> name.val])

\* a loop that builds a list and stops at the first record that raises
Collect(rs) ==
    IF \E j \in 1..Len(rs) : rs[j].err # "none"
    THEN rs[CHOOSE j \in 1..Len(rs) : rs[j].err # "none" /\ \A h \in 1..(j - 1) : rs[h].err = "none"]
    ELSE Ok([j \in 1..Len(rs) |-> rs[j].val])

\* lines 103-119: the loop over the codes; iterating a single code's dict yields its keys
IndicatorInfoList(codes) ==
    IF codes.shape = "missing" THEN Raise("KeyError")
    ELSE IF codes.shape = "one" THEN Raise("TypeError")
    ELSE Collect([j \in 1..Len(codes.items) |-> IndicatorInfo(codes.items[j])])

\* to_concept_id leaves nan (no parent code) as it is
DrillupId(d) == IF d = <<>> THEN <<>> ELSE to_concept_id(d)

\* lines 122-125
ConceptFrame(infos) ==
    [j \in 1..Len(infos) |->
        [concept |-> to_concept_id(infos[j].concept),
         drillup |-> DrillupId(infos[j].drillup),
         name |-> infos[j].name,
         concept_type |-> "measure"]]

\* rows of the frame whose index label is key, in frame order
RowsAt(rows, key) == SelectSeq(rows, LAMBDA r : r.concept = key)

\* a label that is not in the index gives a row of missing values (reindex) instead of raising
LocKeys_Reindex(rows, keys) ==
    Ok(Flatten([j \in 1..Len(keys) |->
                   IF Len(RowsAt(rows, keys[j])) = 0
                   THEN <<[concept |-> keys[j], drillup |-> <<>>, name |-> "", concept_type |-> ""]>>
                   ELSE RowsAt(rows, keys[j])]))

\* line 129: conc.loc[data.keys()]
LocKeys(rows, keys) ==
    IF \E j \in 1..Len(keys) : Len(RowsAt(rows, keys[j])) = 0 THEN Raise("KeyError")
    ELSE Ok(Flatten([j \in 1..Len(keys) |-> RowsAt(rows, keys[j])]))

\* line 132-134: sort_index, the columns kept, the index back as a column
ConceptTable(rows) ==
    LET sorted == StableSort(rows, [j \in 1..Len(rows) |-> <<rows[j].concept>>])
    IN  [columns |-> <<COL_CONCEPT, COL_NAME, COL_CONCEPT_TYPE>>,
         rows |-> [j \in 1..Len(rows) |->
                     [concept |-> sorted[j].concept, name |-> sorted[j].name, concept_type |-> sorted[j].concept_type]]]

extract_concepts_continuous(dat, d) ==
    LET infos == IndicatorInfoList(d.CodeList[1].Code)
    IN  IF infos.err # "none" THEN infos
        ELSE LET kept == LocKeys(ConceptFrame(infos.val), Keys(dat))
             IN  IF kept.err # "none" THEN kept ELSE Ok(ConceptTable(kept.val))

(***************************************************************************)
(* extract_concepts_discrete                                               *)
(***************************************************************************)
extract_concepts_discrete ==
    [columns |-> <<COL_CONCEPT, COL_NAME, COL_CONCEPT_TYPE>>,
     rows |-> <<[concept |-> COL_NAME, name |-> "Name", concept_type |-> "string"],
                [concept |-> COL_TIME, name |-> "Year", concept_type |-> "time"],
                [concept |-> COL_LOCATION, name |-> "Location", concept_type |-> "entity_domain"]>>]

(***************************************************************************)
(* extract_entities_location                                               *)
(***************************************************************************)
\* line 153: c['Description'][0]['#text']
LocationDescription(d) ==
    IF d.shape = "missing" THEN Raise("KeyError")
    ELSE IF d.shape = "one"
    THEN IF IsDict(d.items[1]) THEN Raise("KeyError") ELSE Raise("TypeError")
    ELSE IF IsDict(d.items[1]) THEN Ok(d.items[1].text) ELSE Raise("TypeError")

LocationInfo(c) ==
    LET name == LocationDescription(c.Description)
    IN  IF name.err # "none" THEN name ELSE Ok([location |-> c.value, name |-> name.val])

LocationInfoList(codes) ==
    IF codes.shape = "missing" THEN Raise("KeyError")
    ELSE IF codes.shape = "one" THEN Raise("TypeError")
    ELSE Collect([j \in 1..Len(codes.items) |-> LocationInfo(codes.items[j])])

\* lines 157-158
LocationFrame(infos) ==
    [columns |-> <<COL_LOCATION, COL_NAME>>,
     rows |-> [j \in 1..Len(infos) |-> [location |-> to_concept_id(infos[j].location), name |-> infos[j].name]]]

extract_entities_location(d) ==
    LET infos == LocationInfoList(d.CodeList[2].Code)
    IN  IF infos.err # "none" THEN infos ELSE Ok(LocationFrame(infos.val))

(***************************************************************************)
(* extract_datapoints                                                      *)
(***************************************************************************)
\* a cell holding None / nan; observation values are strings, never this one
MissingValue == "<missing>"

\* line 165: df.dropna(how='any')
IsNa(r) == r.time = <<>> \/ r.location = <<>> \/ r.value = MissingValue
DropNa(rows) == SelectSeq(rows, LAMBDA r : ~IsNa(r))

\* the filter on the text NaN left out
DropNaNText_Kept(rows) == rows

\* line 166: df[df[k] != 'NaN']
DropNaNText(rows) == SelectSeq(rows, LAMBDA r : r.value # "NaN")

\* sorted by location alone
SortPoints_ByLocation(rows) == StableSort(rows, [j \in 1..Len(rows) |-> <<rows[j].location>>])

\* line 168: sort_values(by=['location', 'time'])
SortPoints(rows) == StableSort(rows, [j \in 1..Len(rows) |-> <<rows[j].location, rows[j].time>>])

\* lines 165-168: the table of one indicator
DatapointsTable(k, df) ==
    [columns |-> <<COL_LOCATION, COL_TIME, k>>,
     rows |-> SortPoints(DropNaNText(DropNa(df.rows)))]

\* pandas to_csv(path, index=False): the header and the rows
to_csv(df) == [header |-> df.columns, rows |-> df.rows]

(***************************************************************************)
(* __main__: one action per statement that reads, extracts or writes.      *)
(* An exception ends the run: pc = "aborted", err the exception.           *)
(***************************************************************************)
\* the variables before their first assignment
NoTable == [columns |-> <<>>, rows |-> <<>>]
NoDsd == [CodeList |-> <<>>]
NoCur == [n |-> 0, k |-> <<>>, df |-> NoTable]

ContinuousPath == [name |-> "ddf--concepts--continuous.csv", k |-> <<>>]
DiscretePath == [name |-> "ddf--concepts--discrete.csv", k |-> <<>>]
LocationPath == [name |-> "ddf--entities--location.csv", k |-> <<>>]
DatapointsPath(k) == [name |-> "ddf--datapoints--{}--by--location--time.csv", k |-> k]

Abort(e) == pc' = "aborted" /\ err' = e

\* line 175
ReadDsd ==
    /\ pc = "read_dsd"
    /\ LET r == _read_dsd(dsdXml)
       IN  IF r.err # "none"
           THEN Abort(r.err) /\ UNCHANGED dsd
           ELSE pc' = "read_data" /\ dsd' = r.val /\ UNCHANGED err
    /\ UNCHANGED <<dsdXml, dataXml, data, conc, disc, location, cur, written, indexed>>

\* line 176
ReadData ==
    /\ pc = "read_data"
    /\ LET r == _read_data(dataXml)
       IN  IF r.err # "none"
           THEN Abort(r.err) /\ UNCHANGED data
           ELSE pc' = "extract_conc" /\ data' = r.val /\ UNCHANGED err
    /\ UNCHANGED <<dsdXml, dataXml, dsd, conc, disc, location, cur, written, indexed>>

\* the output file created before the concepts are extracted
ConceptsContinuous_FileFirst ==
    /\ pc = "extract_conc"
    /\ written' = Append(written, [path |-> ContinuousPath, csv |-> to_csv(NoTable)])
    /\ LET r == extract_concepts_continuous(data, dsd)
       IN  IF r.err # "none"
           THEN Abort(r.err) /\ UNCHANGED conc
           ELSE pc' = "write_conc" /\ conc' = r.val /\ UNCHANGED err
    /\ UNCHANGED <<dsdXml, dataXml, dsd, data, disc, location, cur, indexed>>

\* line 179
ConceptsContinuous ==
    /\ pc = "extract_conc"
    /\ LET r == extract_concepts_continuous(data, dsd)
       IN  IF r.err # "none"
           THEN Abort(r.err) /\ UNCHANGED conc
           ELSE pc' = "write_conc" /\ conc' = r.val /\ UNCHANGED err
    /\ UNCHANGED <<dsdXml, dataXml, dsd, data, disc, location, cur, written, indexed>>

\* lines 180-181
WriteContinuous ==
    /\ pc = "write_conc"
    /\ written' = Append(written, [path |-> ContinuousPath, csv |-> to_csv(conc)])
    /\ pc' = "extract_disc"
    /\ UNCHANGED <<dsdXml, dataXml, dsd, data, conc, disc, location, cur, indexed, err>>

\* line 183
ConceptsDiscrete ==
    /\ pc = "extract_disc"
    /\ disc' = extract_concepts_discrete
    /\ pc' = "write_disc"
    /\ UNCHANGED <<dsdXml, dataXml, dsd, data, conc, location, cur, written, indexed, err>>

\* lines 184-185
WriteDiscrete ==
    /\ pc = "write_disc"
    /\ written' = Append(written, [path |-> DiscretePath, csv |-> to_csv(disc)])
    /\ pc' = "extract_loc"
    /\ UNCHANGED <<dsdXml, dataXml, dsd, data, conc, disc, location, cur, indexed, err>>

\* line 188
EntitiesLocation ==
    /\ pc = "extract_loc"
    /\ LET r == extract_entities_location(dsd)
       IN  IF r.err # "none"
           THEN Abort(r.err) /\ UNCHANGED location
           ELSE pc' = "write_loc" /\ location' = r.val /\ UNCHANGED err
    /\ UNCHANGED <<dsdXml, dataXml, dsd, data, conc, disc, cur, written, indexed>>

\* lines 189-190
WriteLocation ==
    /\ pc = "write_loc"
    /\ written' = Append(written, [path |-> LocationPath, csv |-> to_csv(location)])
    /\ pc' = "datapoints"
    /\ UNCHANGED <<dsdXml, dataXml, dsd, data, conc, disc, location, cur, indexed, err>>

\* lines 193 and 164-170: the generator resumed; it yields the next indicator's table or ends
NextDatapoints ==
    /\ pc = "datapoints"
    /\ IF cur.n < Len(data)
       THEN /\ cur' = [n |-> cur.n + 1, k |-> data[cur.n + 1].k,
                       df |-> DatapointsTable(data[cur.n + 1].k, data[cur.n + 1].v)]
            /\ pc' = "write_dp"
       ELSE /\ pc' = "index"
            /\ UNCHANGED cur
    /\ UNCHANGED <<dsdXml, dataXml, dsd, data, conc, disc, location, written, indexed, err>>

\* the index generator called inside the loop, after the first datapoints file
WriteDatapoints_ThenIndex ==
    /\ pc = "write_dp"
    /\ written' = Append(written, [path |-> DatapointsPath(cur.k), csv |-> to_csv(cur.df)])
    /\ pc' = "index"
    /\ UNCHANGED <<dsdXml, dataXml, dsd, data, conc, disc, location, cur, indexed, err>>

\* lines 194-196
WriteDatapoints ==
    /\ pc = "write_dp"
    /\ written' = Append(written, [path |-> DatapointsPath(cur.k), csv |-> to_csv(cur.df)])
    /\ pc' = "datapoints"
    /\ UNCHANGED <<dsdXml, dataXml, dsd, data, conc, disc, location, cur, indexed, err>>

\* line 199
CreateIndex ==
    /\ pc = "index"
    /\ indexed' = indexed + 1
    /\ pc' = "done"
    /\ UNCHANGED <<dsdXml, dataXml, dsd, data, conc, disc, location, cur, written, err>>

Next ==
    \/ ReadDsd
    \/ ReadData
    \/ ConceptsContinuous
    \/ WriteContinuous
    \/ ConceptsDiscrete
    \/ WriteDiscrete
    \/ EntitiesLocation
    \/ WriteLocation
    \/ NextDatapoints
    \/ WriteDatapoints
    \/ CreateIndex

(***************************************************************************)
(* The input files.                                                        *)
(***************************************************************************)
SeqsUpTo(S, n) == UNION {[1..m -> S] : m \in 0..n}

Value(concept, value) == [concept |-> concept, value |-> value]
Obs(time, value) == [time |-> time, hasValue |-> TRUE, value |-> value]
ObsNoValue(time) == [time |-> time, hasValue |-> FALSE, value |-> ""]
Series(key, obs) == [key |-> key, obs |-> obs]
Desc(text, attrs) == [text |-> text, attrs |-> attrs]
Code(value, descs) == [value |-> value, hasParent |-> FALSE, parentCode |-> <<>>, descs |-> descs]
ChildCode(value, parent, descs) == [value |-> value, hasParent |-> TRUE, parentCode |-> parent, descs |-> descs]
DsdFile(inds, locs) == [wellFormed |-> TRUE, indicators |-> inds, locations |-> locs]
DataFile(series) == [wellFormed |-> TRUE, series |-> series]

EDU1 == <<"E", "D", "U", "1">>
Edu1 == <<"E", "d", "u", "1">>
EDU_2 == <<"E", "D", "U", "-", "2">>
SAF == <<"S", "A", "F">>
USA == <<"U", "S", "A">>
Usa == <<"u", "s", "a">>
FRA == <<"F", "R", "A">>

Y999 == <<"9", "9", "9">>
Y1999 == <<"1", "9", "9", "9">>
Y2000 == <<"2", "0", "0", "0">>
Y2001 == <<"2", "0", "0", "1">>

IndicatorName(c) == IF c = EDU1 THEN "Test Indicator" ELSE IF c = Edu1 THEN "Test Indicator bis" ELSE "Second Indicator"
LocationName(c) == IF c = USA THEN "United States" ELSE IF c = Usa THEN "United States bis" ELSE "France"

\* the Description children a code can have: bare text, text with a language, two languages
DescLists(text) == {<<Desc(text, FALSE)>>, <<Desc(text, TRUE)>>, <<Desc(text, TRUE), Desc("fr", TRUE)>>}

IndicatorCodes == {Code(c, d) : c \in {EDU1} , d \in DescLists(IndicatorName(EDU1))}
    \cup {Code(Edu1, d) : d \in DescLists(IndicatorName(Edu1))}
    \cup {Code(EDU_2, d) : d \in DescLists(IndicatorName(EDU_2))}
    \cup {ChildCode(EDU_2, EDU1, d) : d \in DescLists(IndicatorName(EDU_2))}

LocationCodes == {Code(USA, d) : d \in DescLists(LocationName(USA))}
    \cup {Code(Usa, d) : d \in DescLists(LocationName(Usa))}
    \cup {Code(FRA, d) : d \in DescLists(LocationName(FRA))}

TwoLang(text) == <<Desc(text, TRUE), Desc("fr", TRUE)>>

\* the structure file of the end-to-end example: one indicator code, one location code
MinimalIndicators == <<Code(EDU1, <<Desc("Test Indicator", FALSE)>>)>>
MinimalLocations == <<Code(USA, <<Desc("United States", FALSE)>>)>>
MinimalDsd == DsdFile(MinimalIndicators, MinimalLocations)

\* a structure file in the shape of the provider's: several codes, descriptions in two languages
FullIndicators == <<ChildCode(EDU_2, EDU1, TwoLang(IndicatorName(EDU_2))), Code(EDU1, TwoLang(IndicatorName(EDU1)))>>
FullLocations == <<Code(USA, TwoLang(LocationName(USA))), Code(FRA, TwoLang(LocationName(FRA)))>>
FullDsd == DsdFile(FullIndicators, FullLocations)

SeriesKey(ind, loc) == <<Value("EDULIT_IND", ind), Value("LOCATION", loc)>>

\* the data file of the end-to-end example
MinimalData == DataFile(<<Series(SeriesKey(EDU1, USA), <<Obs(Y2000, "1.0"), Obs(Y2001, "2.0")>>)>>)

EmptyData == DataFile(<<>>)

\* the state when __main__ starts on the files x and y
Start(x, y) ==
    /\ pc = "read_dsd"
    /\ dsdXml = x
    /\ dataXml = y
    /\ dsd = NoDsd
    /\ data = <<>>
    /\ conc = NoTable
    /\ disc = NoTable
    /\ location = NoTable
    /\ cur = NoCur
    /\ written = <<>>
    /\ indexed = 0
    /\ err = "none"

(***************************************************************************)
(* Spec: whole runs, on files that succeed and files that fail each stage. *)
(***************************************************************************)
OneLangLocations == <<Code(USA, TwoLang(LocationName(USA))), Code(FRA, <<Desc(LocationName(FRA), TRUE)>>)>>

MainDsdFiles ==
    {[wellFormed |-> w, indicators |-> i, locations |-> l] :
        w \in BOOLEAN, i \in {MinimalIndicators, FullIndicators},
        l \in {MinimalLocations, FullLocations, OneLangLocations}}

MainSeries ==
    {Series(SeriesKey(EDU1, USA), <<Obs(Y2000, "1.0"), Obs(Y2001, "2.0")>>),
     Series(SeriesKey(EDU1, FRA), <<Obs(Y1999, "NaN")>>),
     Series(SeriesKey(EDU_2, USA), <<Obs(Y2000, "5.1"), Obs(Y1999, "4.8")>>),
     Series(SeriesKey(SAF, USA), <<Obs(Y2000, "7")>>)}

MainDataFiles ==
    {[wellFormed |-> FALSE, series |-> <<>>]} \cup {DataFile(ss) : ss \in SeqsUpTo(MainSeries, 2)}

Init == \E x \in MainDsdFiles, y \in MainDataFiles : Start(x, y)

Spec == Init /\ [][Next]_vars

(***************************************************************************)
(* Vocabulary of the properties.                                           *)
(***************************************************************************)
IsPrefix(a, b) == Len(a) <= Len(b) /\ \A j \in 1..Len(a) : a[j] = b[j]
Paths(w) == [j \in 1..Len(w) |-> w[j].path]
Wrote(path) == \E j \in 1..Len(written) : written[j].path = path
FileAt(path) == written[CHOOSE j \in 1..Len(written) : written[j].path = path].csv

\* the files of a run on the mapping dat, in the order the program writes them
WriteOrder(dat) == <<ContinuousPath, DiscretePath, LocationPath>> \o [j \in 1..Len(dat) |-> DatapointsPath(dat[j].k)]

\* both readers have returned and the program holds what they returned
ReadersDone ==
    /\ _read_dsd(dsdXml).err = "none" /\ dsd = _read_dsd(dsdXml).val
    /\ _read_data(dataXml).err = "none" /\ data = _read_data(dataXml).val

ExtractorPositions == {"extract_conc", "extract_disc", "extract_loc", "datapoints"}

edu1 == <<"e", "d", "u", "1">>
edu_2 == <<"e", "d", "u", "_", "2">>
usa == <<"u", "s", "a">>
fra == <<"f", "r", "a">>

(***************************************************************************)
(* C1.  On the minimal structure file (one indicator code EDU1, one        *)
(* location code USA) and the data file with one series of two             *)
(* observations, the run does not abort, and when it is done it has        *)
(* written the concept row (edu1, Test Indicator, measure), the location   *)
(* row (usa, United States) and two datapoints of edu1 in time order.      *)
(***************************************************************************)
C1_EndToEnd ==
    (dsdXml = MinimalDsd /\ dataXml = MinimalData) =>
        /\ pc # "aborted"
        /\ pc = "done" =>
            /\ FileAt(ContinuousPath).rows = <<[concept |-> edu1, name |-> "Test Indicator", concept_type |-> "measure"]>>
            /\ FileAt(LocationPath).rows = <<[location |-> usa, name |-> "United States"]>>
            /\ FileAt(DatapointsPath(edu1)).rows =
                   <<[location |-> usa, time |-> Y2000, value |-> "1.0"], [location |-> usa, time |-> Y2001, value |-> "2.0"]>>

(***************************************************************************)
(* C8.  The stages of a run happen in one order.  An extractor runs only   *)
(* when both readers have returned.  Every write appends the next file of  *)
(* the order continuous concepts, discrete concepts, locations, one        *)
(* datapoints file per indicator.  The index generator is called at most   *)
(* once, only when all those files are written, never in an aborted run.   *)
(***************************************************************************)
C8_StepOrder ==
    /\ pc \in ExtractorPositions => ReadersDone
    /\ written' # written =>
          /\ Len(written) < Len(WriteOrder(data))
          /\ Paths(written') = Append(Paths(written), WriteOrder(data)[Len(written) + 1])
    /\ indexed' # indexed =>
          /\ indexed = 0 /\ indexed' = 1
          /\ Paths(written) = WriteOrder(data)
          /\ written' = written
          /\ err = "none" /\ pc' = "done"

C8_StateOrder ==
    /\ IsPrefix(Paths(written), WriteOrder(data))
    /\ indexed \in {0, 1}
    /\ indexed = 1 => (pc = "done" /\ Paths(written) = WriteOrder(data))
    /\ pc = "aborted" => (indexed = 0 /\ err # "none")
    /\ pc = "done" => (indexed = 1 /\ err = "none")

C8_FixedOrder == []C8_StateOrder /\ [][C8_StepOrder]_vars

\* a finished run on two indicators: five files, then the index
C8_Witness == pc = "done" /\ Len(data) = 2 /\ Len(written) = 5 /\ indexed = 1

(***************************************************************************)
(* C10.  A run that fails in a reader or in extract_concepts_continuous    *)
(* never writes a file and never calls the index generator.  An aborted    *)
(* run that has written files failed in a later stage: it has written the  *)
(* two concept files at least, its files are a proper prefix of the write  *)
(* order, and the index generator was not called.                          *)
(***************************************************************************)
FailsInReader == _read_dsd(dsdXml).err # "none" \/ _read_data(dataXml).err # "none"

FailsInConcepts ==
    /\ ~FailsInReader
    /\ extract_concepts_continuous(_read_data(dataXml).val, _read_dsd(dsdXml).val).err # "none"

C10_AbortBeforeWrite ==
    /\ (FailsInReader \/ FailsInConcepts) => (written = <<>> /\ indexed = 0 /\ pc \in {"read_dsd", "read_data", "extract_conc", "aborted"})
    /\ (pc = "aborted" /\ written # <<>>) =>
          /\ ~FailsInReader /\ ~FailsInConcepts
          /\ Len(written) >= 2
          /\ IsPrefix(Paths(written), WriteOrder(data)) /\ Len(written) < Len(WriteOrder(data))
          /\ indexed = 0

\* a run aborted by the location extractor after the two concept files
C10_Witness == pc = "aborted" /\ Paths(written) = <<ContinuousPath, DiscretePath>> /\ Len(data) > 0

\* a run aborted by extract_concepts_continuous: nothing written
C10_WitnessEarly == pc = "aborted" /\ FailsInConcepts /\ written = <<>>

(***************************************************************************)
(* SpecRead: _read_data on every data file of up to MaxSeries series.      *)
(***************************************************************************)
\* the SeriesKey children of a series with an indicator and a location
ReadKeys ==
    {SeriesKey(EDU1, USA), SeriesKey(EDU1, FRA), SeriesKey(Edu1, Usa),
     <<Value("LOCATION", FRA), Value("EDULIT_IND", EDU_2)>>}

\* SeriesKey children that miss something: a single Value, no LOCATION, no EDULIT_IND
BadKeys ==
    {<<Value("EDULIT_IND", EDU1)>>,
     <<Value("EDULIT_IND", EDU1), Value("AGE", SAF)>>,
     <<Value("LOCATION", USA), Value("AGE", SAF)>>}

\* the Obs children of a series: one, several out of time order, a NaN text and an empty Time
ReadObs ==
    {<<Obs(Y2000, "5.1")>>,
     <<Obs(Y2000, "5.1"), Obs(Y1999, "4.8")>>,
     <<Obs(Y2000, "NaN"), Obs(<<>>, "4.8")>>}

\* Obs children that miss something: no Obs at all, an ObsValue without value
BadObs == {<<>>, <<Obs(Y2000, "5.1"), ObsNoValue(Y1999)>>}

ReadSeriesPool ==
    {Series(k, o) : k \in ReadKeys, o \in ReadObs}
    \cup {Series(k, <<Obs(Y2000, "5.1")>>) : k \in BadKeys}
    \cup {Series(SeriesKey(EDU1, USA), o) : o \in BadObs}

\* the state when _read_data is called on the file y
AtReadData(x, y) ==
    /\ pc = "read_data"
    /\ dsdXml = x
    /\ dataXml = y
    /\ dsd = _read_dsd(x).val
    /\ data = <<>>
    /\ conc = NoTable
    /\ disc = NoTable
    /\ location = NoTable
    /\ cur = NoCur
    /\ written = <<>>
    /\ indexed = 0
    /\ err = "none"

InitRead == \E ss \in SeqsUpTo(ReadSeriesPool, MaxSeries) : AtReadData(FullDsd, DataFile(ss))

NextRead == ReadData

SpecRead == InitRead /\ [][NextRead]_vars

\* what a well-formed series says: its indicator, its location, its observations
KeyValue(s, concept) ==
    LET last == CHOOSE j \in 1..Len(s.key) : s.key[j].concept = concept /\ \A h \in (j + 1)..Len(s.key) : s.key[h].concept # concept
    IN  s.key[last].value
HasConcept(s, concept) == \E j \in 1..Len(s.key) : s.key[j].concept = concept
WellFormedSeries(s) ==
    /\ Len(s.key) >= 2 /\ HasConcept(s, "EDULIT_IND") /\ HasConcept(s, "LOCATION")
    /\ Len(s.obs) >= 1 /\ \A j \in 1..Len(s.obs) : s.obs[j].hasValue
IndicatorOf(s) == to_concept_id(KeyValue(s, "EDULIT_IND"))
LocationOf(s) == to_concept_id(KeyValue(s, "LOCATION"))
SamePair(s, t) == IndicatorOf(s) = IndicatorOf(t) /\ LocationOf(s) = LocationOf(t)

\* series j is a second occurrence of a pair, and no series up to it is malformed
SecondOccurrence(ss, j) ==
    /\ \A h \in 1..j : WellFormedSeries(ss[h])
    /\ \E h \in 1..(j - 1) : SamePair(ss[h], ss[j])
\* some pair occurs twice among the series that have a pair
HasDuplicatePair(ss) ==
    \E h, j \in 1..Len(ss) : h < j /\ WellFormedSeries(ss[h]) /\ WellFormedSeries(ss[j]) /\ SamePair(ss[h], ss[j])

\* _read_data has been called; it has returned a mapping
ReaderRan == pc \notin {"read_dsd", "read_data"} /\ (pc = "aborted" => _read_dsd(dsdXml).err = "none")
ReaderReturned == pc \notin {"read_dsd", "read_data"} /\ (pc = "aborted" => ~FailsInReader)

RowsOfSeries(s) == [j \in 1..Len(s.obs) |-> [time |-> s.obs[j].time, value |-> s.obs[j].value, location |-> LocationOf(s)]]
SeriesOfIndicator(ss, k) == SelectSeq(ss, LAMBDA s : IndicatorOf(s) = k)
RowsOfIndicator(ss, k) == Flatten([j \in 1..Len(SeriesOfIndicator(ss, k)) |-> RowsOfSeries(SeriesOfIndicator(ss, k)[j])])

(***************************************************************************)
(* C2.  _read_data keeps at most one series per (indicator id, location    *)
(* id) pair.  When it reaches the second occurrence of a pair it raises    *)
(* AssertionError, wherever the two occurrences are, the first series of   *)
(* the indicator included; a file with a repeated pair is never read into  *)
(* a mapping; a file whose pairs are distinct never raises AssertionError. *)
(***************************************************************************)
C2_OneSeriesPerPair ==
    ReaderRan =>
        LET ss == dataXml.series
        IN  /\ (\E j \in 1..Len(ss) : SecondOccurrence(ss, j)) => (pc = "aborted" /\ err = "AssertionError")
            /\ HasDuplicatePair(ss) => (pc = "aborted" /\ data = <<>>)
            /\ ~HasDuplicatePair(ss) => err # "AssertionError"

\* the repeated pair is the first series of its indicator, a series of another location sits
\* between its two occurrences, and the second occurrence spells the codes differently
C2_Witness ==
    /\ pc = "aborted" /\ err = "AssertionError"
    /\ Len(dataXml.series) = 3
    /\ \A j \in 1..3 : WellFormedSeries(dataXml.series[j])
    /\ SamePair(dataXml.series[1], dataXml.series[3])
    /\ dataXml.series[1].key # dataXml.series[3].key
    /\ IndicatorOf(dataXml.series[2]) = IndicatorOf(dataXml.series[1])
    /\ LocationOf(dataXml.series[2]) # LocationOf(dataXml.series[1])

(***************************************************************************)
(* C9.  A file of well-formed series without a repeated pair is read into  *)
(* one table per indicator, with the columns (time, indicator, location),  *)
(* whose rows are the observations of that indicator's series, series by   *)
(* series in document order and observation by observation in document     *)
(* order: a series of one Obs gives one row, a series of n Obs gives n.    *)
(***************************************************************************)
C9_TablesAreConcatenations ==
    LET ss == dataXml.series
    IN  /\ (ReaderRan /\ (\A j \in 1..Len(ss) : WellFormedSeries(ss[j])) /\ ~HasDuplicatePair(ss)) => ReaderReturned
        /\ ReaderReturned =>
            /\ \A j \in 1..Len(ss) : WellFormedSeries(ss[j]) /\ HasKey(data, IndicatorOf(ss[j]))
            /\ \A i, j \in 1..Len(data) : data[i].k = data[j].k => i = j
            /\ \A i \in 1..Len(data) :
                  /\ data[i].v.columns = <<COL_TIME, data[i].k, COL_LOCATION>>
                  /\ data[i].v.rows = RowsOfIndicator(ss, data[i].k)

\* one indicator read from a series of one Obs and, after it, a series of two Obs of another location
C9_Witness ==
    /\ pc = "extract_conc" /\ Len(data) = 1 /\ Len(dataXml.series) = 2
    /\ Len(dataXml.series[1].obs) = 1 /\ Len(dataXml.series[2].obs) = 2
    /\ Len(data[1].v.rows) = 3
    /\ data[1].v.rows[1].location = usa /\ data[1].v.rows[3].location = fra

(***************************************************************************)
(* SpecConc: extract_concepts_continuous on every indicator code list of   *)
(* up to MaxCodes codes and every mapping of up to MaxSeries indicators.   *)
(***************************************************************************)
\* the sequences of up to n different elements of S
DistinctSeqs(S, n) == {q \in SeqsUpTo(S, n) : \A i, j \in 1..Len(q) : q[i] = q[j] => i = j}

\* a data file with one series for each of the codes
FileOfIndicators(codes) == DataFile([j \in 1..Len(codes) |-> Series(SeriesKey(codes[j], USA), <<Obs(Y2000, "5.1")>>)])

\* the state when extract_concepts_continuous is called
AtConcepts(x, y) ==
    /\ pc = "extract_conc"
    /\ dsdXml = x
    /\ dataXml = y
    /\ dsd = _read_dsd(x).val
    /\ data = _read_data(y).val
    /\ conc = NoTable
    /\ disc = NoTable
    /\ location = NoTable
    /\ cur = NoCur
    /\ written = <<>>
    /\ indexed = 0
    /\ err = "none"

\* a code list declares a code once
DistinctCodes(codes) == \A i, j \in 1..Len(codes) : codes[i].value = codes[j].value => i = j

InitConc ==
    \E inds \in SeqsUpTo(IndicatorCodes, MaxCodes), codes \in DistinctSeqs({EDU1, EDU_2, SAF}, MaxSeries) :
        DistinctCodes(inds) /\ AtConcepts(DsdFile(inds, FullLocations), FileOfIndicators(codes))

NextConc == ConceptsContinuous

SpecConc == InitConc /\ [][NextConc]_vars

\* extract_concepts_continuous has been called; it has returned a table
ConceptsRan == pc \notin {"read_dsd", "read_data", "extract_conc"} /\ (pc = "aborted" => ~FailsInReader)
ConceptsReturned == pc \notin {"read_dsd", "read_data", "extract_conc"} /\ (pc = "aborted" => Len(written) > 0)

\* the concept ids the structure file declares, and the indicator ids of the data
DeclaredIds == {to_concept_id(dsdXml.indicators[j].value) : j \in 1..Len(dsdXml.indicators)}
DataIds == {data[j].k : j \in 1..Len(data)}
ConceptIds == {conc.rows[j].concept : j \in 1..Len(conc.rows)}

\* the loop over the codes (lines 103-119) runs to its end: several codes, and the
\* first Description of each carries attributes
CodeListReadable ==
    /\ Len(dsdXml.indicators) >= 2
    /\ \A j \in 1..Len(dsdXml.indicators) :
          Len(dsdXml.indicators[j].descs) >= 1 /\ dsdXml.indicators[j].descs[1].attrs

(***************************************************************************)
(* C3.  The table extract_concepts_continuous returns has exactly one row  *)
(* for each indicator id that is in the structure file and in the data,    *)
(* has no concept id twice, and is in ascending order of concept id, also  *)
(* when two codes of the structure file have the same concept id.          *)
(***************************************************************************)
C3_OneRowPerIndicator ==
    ConceptsReturned =>
        /\ ConceptIds = DeclaredIds \cap DataIds
        /\ \A i, j \in 1..Len(conc.rows) : conc.rows[i].concept = conc.rows[j].concept => i = j
        /\ \A i, j \in 1..Len(conc.rows) : i < j => StrLeq(conc.rows[i].concept, conc.rows[j].concept)

(***************************************************************************)
(* C4.  extract_concepts_continuous filters asymmetrically.  With an       *)
(* indicator id of the data that the structure file does not declare it    *)
(* never returns a table; its lookup raises KeyError.  An id the           *)
(* structure file declares and the data lacks raises nothing: the table    *)
(* has the ids of the data and no other.  (KeyError and the absence of an  *)
(* error are those of the lookup, lines 127-129, reached when the loop     *)
(* over the codes has run to its end.)                                     *)
(***************************************************************************)
C4_AsymmetricFilter ==
    ConceptsRan =>
        /\ ~(DataIds \subseteq DeclaredIds) => (pc = "aborted" /\ conc = NoTable /\ written = <<>>)
        /\ (CodeListReadable /\ ~(DataIds \subseteq DeclaredIds)) => err = "KeyError"
        /\ (CodeListReadable /\ DataIds \subseteq DeclaredIds) =>
              (ConceptsReturned /\ ConceptIds = DataIds /\ (DeclaredIds \ DataIds) \cap ConceptIds = {})

\* the lookup fails for one id of the data although the other is declared
C4_Witness ==
    /\ pc = "aborted" /\ err = "KeyError" /\ CodeListReadable
    /\ Len(data) = 2 /\ data[1].k \in DeclaredIds /\ data[2].k \notin DeclaredIds

\* a declared indicator that the data lacks is dropped
C4_WitnessDropped ==
    /\ pc = "write_conc" /\ DeclaredIds = {edu1, edu_2} /\ DataIds = {edu_2} /\ ConceptIds = {edu_2}

(***************************************************************************)
(* SpecLoc: extract_entities_location on every location code list of one   *)
(* to MaxCodes codes.                                                      *)
(***************************************************************************)
\* the state when extract_entities_location is called
AtLocations(x, y) ==
    /\ pc = "extract_loc"
    /\ dsdXml = x
    /\ dataXml = y
    /\ dsd = _read_dsd(x).val
    /\ data = _read_data(y).val
    /\ conc = extract_concepts_continuous(_read_data(y).val, _read_dsd(x).val).val
    /\ disc = extract_concepts_discrete
    /\ location = NoTable
    /\ cur = NoCur
    /\ written = <<[path |-> ContinuousPath, csv |-> to_csv(extract_concepts_continuous(_read_data(y).val, _read_dsd(x).val).val)],
                   [path |-> DiscretePath, csv |-> to_csv(extract_concepts_discrete)]>>
    /\ indexed = 0
    /\ err = "none"

InitLoc ==
    \E locs \in SeqsUpTo(LocationCodes, MaxCodes), y \in {EmptyData, MinimalData, FileOfIndicators(<<EDU_2, EDU1>>)} :
        Len(locs) >= 1 /\ DistinctCodes(locs) /\ AtLocations(DsdFile(FullIndicators, locs), y)

NextLoc == EntitiesLocation

SpecLoc == InitLoc /\ [][NextLoc]_vars

\* extract_entities_location has been called
LocationsRan == pc \in {"write_loc", "datapoints", "write_dp", "index", "done"} \/ (pc = "aborted" /\ Len(written) >= 2)

(***************************************************************************)
(* C7.  extract_entities_location returns one record (location id, name)   *)
(* for each code of the location code list, in the order of the list,      *)
(* whatever the data holds.                                                *)
(***************************************************************************)
C7_OneRecordPerCode ==
    LocationsRan =>
        /\ pc # "aborted"
        /\ Len(location.rows) = Len(dsdXml.locations)
        /\ \A j \in 1..Len(location.rows) :
              /\ location.rows[j].location = to_concept_id(dsdXml.locations[j].value)
              /\ location.rows[j].name = dsdXml.locations[j].descs[1].text

(***************************************************************************)
(* SpecDP: whole runs on data files of up to MaxSeries series with NaN     *)
(* texts, empty Time elements, ObsValue elements without a value, and      *)
(* observations and locations out of order.                                *)
(***************************************************************************)
Row(loc, time, value) == [time |-> time, value |-> value, location |-> loc]

DatapointSeries ==
    {Series(SeriesKey(EDU1, USA), <<Obs(Y2000, "5.1"), Obs(Y1999, "4.8")>>),
     Series(SeriesKey(EDU1, FRA), <<Obs(Y2000, "NaN"), Obs(<<>>, "4.8")>>),
     Series(SeriesKey(EDU1, FRA), <<Obs(Y2000, "7"), Obs(Y999, "4.8")>>),
     Series(SeriesKey(EDU_2, USA), <<Obs(Y2000, "5.1"), ObsNoValue(Y1999)>>),
     Series(SeriesKey(EDU_2, USA), <<Obs(Y1999, "NaN")>>),
     Series(SeriesKey(EDU_2, FRA), <<Obs(Y999, "7"), Obs(Y2000, "NaN")>>)}

InitDP == \E ss \in SeqsUpTo(DatapointSeries, MaxSeries) : Start(FullDsd, DataFile(ss))

SpecDP == InitDP /\ [][Next]_vars

\* a table has been yielded: the rows that went in, the rows that came out
Yielded == pc = "write_dp"
RowsIn == data[cur.n].v.rows
RowsOut == cur.df.rows
Count(rows, r) == Cardinality({j \in 1..Len(rows) : rows[j] = r})
Complete(r) == r.time # <<>> /\ r.location # <<>> /\ r.value # MissingValue
SomeObsWithoutValue ==
    \E i \in 1..Len(dataXml.series) : \E j \in 1..Len(dataXml.series[i].obs) : ~dataXml.series[i].obs[j].hasValue
LastWritten == written[Len(written)]

(***************************************************************************)
(* C5, as the claim states it.  The table extract_datapoints yields has    *)
(* no row whose value is missing and no row whose value is the text NaN,   *)
(* and has every other row of its input exactly once; it has the columns   *)
(* (location, time, indicator) also when empty; and an observation with a  *)
(* missing value does not abort the run.                                   *)
(***************************************************************************)
C5_DropsOnlyMissingValues ==
    /\ Yielded =>
          /\ \A r \in {RowsIn[j] : j \in 1..Len(RowsIn)} \cup {RowsOut[j] : j \in 1..Len(RowsOut)} :
                Count(RowsOut, r) = IF r.value # MissingValue /\ r.value # "NaN" THEN Count(RowsIn, r) ELSE 0
          /\ cur.df.columns = <<COL_LOCATION, COL_TIME, cur.k>>
    /\ SomeObsWithoutValue => pc # "aborted"

(***************************************************************************)
(* C5, amended.  The table extract_datapoints yields has no row with a     *)
(* missing cell (location, time or value) and no row whose value is the    *)
(* text NaN, and has every other row of its input exactly once: a row      *)
(* whose time is missing goes too, whatever its value.  It has the columns *)
(* (location, time, indicator) also when empty, and the file written from  *)
(* it has that header and those rows.  An Obs whose ObsValue has no value  *)
(* is not dropped: it aborts the run in _read_data, before any write.      *)
(***************************************************************************)
C5_DropsIncompleteAndNaN ==
    /\ Yielded =>
          /\ \A r \in {RowsIn[j] : j \in 1..Len(RowsIn)} \cup {RowsOut[j] : j \in 1..Len(RowsOut)} :
                Count(RowsOut, r) = IF Complete(r) /\ r.value # "NaN" THEN Count(RowsIn, r) ELSE 0
          /\ cur.df.columns = <<COL_LOCATION, COL_TIME, cur.k>>
    /\ (pc = "datapoints" /\ cur.n >= 1) =>
          /\ LastWritten.path = DatapointsPath(cur.k)
          /\ LastWritten.csv.header = <<COL_LOCATION, COL_TIME, cur.k>>
          /\ LastWritten.csv.rows = cur.df.rows
    /\ SomeObsWithoutValue => (written = <<>> /\ pc \in {"read_dsd", "read_data", "aborted"})

\* a table with a NaN text, a missing time and two complete rows, which alone remain
C5_Witness ==
    /\ Yielded /\ Len(RowsIn) = 4 /\ Len(RowsOut) = 2
    /\ \E j \in 1..Len(RowsIn) : RowsIn[j].value = "NaN"
    /\ \E j \in 1..Len(RowsIn) : RowsIn[j].time = <<>> /\ RowsIn[j].value = "4.8"

\* every row dropped: the file is the header alone
C5_WitnessEmpty ==
    /\ pc = "datapoints" /\ cur.n >= 1 /\ Len(RowsIn) >= 2
    /\ LastWritten.csv.rows = <<>> /\ Len(LastWritten.csv.header) = 3

\* a run aborted in _read_data by an ObsValue without value
C5_WitnessAbort == SomeObsWithoutValue /\ pc = "aborted" /\ err = "TypeError"

(***************************************************************************)
(* C6.  The table extract_datapoints yields has the columns (location,     *)
(* time, indicator) in that order and its rows in ascending order of       *)
(* location and, within a location, of time, both compared as strings;     *)
(* the rows (usa, 2000, 5.1), (usa, 1999, 4.8) come out 1999 first.        *)
(***************************************************************************)
C6_SortedByLocationTime ==
    Yielded =>
        /\ cur.df.columns = <<COL_LOCATION, COL_TIME, cur.k>>
        /\ \A i, j \in 1..Len(RowsOut) : i < j =>
              \/ StrLess(RowsOut[i].location, RowsOut[j].location)
              \/ (RowsOut[i].location = RowsOut[j].location /\ StrLeq(RowsOut[i].time, RowsOut[j].time))
        /\ RowsIn = <<Row(usa, Y2000, "5.1"), Row(usa, Y1999, "4.8")>> =>
              RowsOut = <<Row(usa, Y1999, "4.8"), Row(usa, Y2000, "5.1")>>

\* the two rows of the example, and a table of two locations given in descending order
C6_Witness == Yielded /\ RowsIn = <<Row(usa, Y2000, "5.1"), Row(usa, Y1999, "4.8")>>
C6_WitnessLocations ==
    /\ Yielded /\ Len(RowsOut) = 4
    /\ RowsIn[1].location = usa /\ RowsOut[1] = Row(fra, Y2000, "7") /\ RowsOut[2].time = Y999

====
